---- MODULE Spec2Model ----
(***************************************************************************)
(* A model of the VDOT notebook (notebooks/1-basics.ipynb): the index      *)
(* computation cell, the equivalent-time cell (f and the bisection over    *)
(* the bracket [1, 600]) and the training-pace cell (g, the zone table and *)
(* the pace loop), run as cells of one kernel whose namespace is the       *)
(* state.                                                                  *)
(*                                                                         *)
(* Python floats are binary floating point numbers.  They are modelled as  *)
(* records [s, m, e] of value s * m * 2^e with a 24 bit significand m      *)
(* (2^23 <= m < 2^24, or m = 0 for zero) and round-to-nearest arithmetic:  *)
(* the same kind of number as the code's, with a narrower significand (the *)
(* code's has 53 bits), since the model's integers are 32 bits wide.       *)
(***************************************************************************)
EXTENDS Integers, Sequences, FiniteSets, TLC

(***************************************************************************)
(* Floating point arithmetic                                               *)
(***************************************************************************)
Mant == 2^24
Half == 2^12

Zero == [s |-> 0, m |-> 0, e |-> 0]

Abs(n) == IF n < 0 THEN -n ELSE n

Sgn(n) == IF n < 0 THEN -1 ELSE IF n = 0 THEN 0 ELSE 1

RECURSIVE BitLen(_)
BitLen(n) == IF n = 0 THEN 0
             ELSE IF n >= 65536 THEN 16 + BitLen(n \div 65536)
             ELSE IF n >= 256 THEN 8 + BitLen(n \div 256)
             ELSE 1 + BitLen(n \div 2)

\* The float of value sgn * M * 2^E, M rounded to 24 bits (half up).
Pack(sgn, M, E) ==
    IF M = 0 \/ sgn = 0 THEN Zero
    ELSE LET k == BitLen(M) - 24 IN
         IF k <= 0 THEN [s |-> sgn, m |-> M * 2^(-k), e |-> E + k]
         ELSE LET q == (M + 2^(k - 1)) \div 2^k IN
              IF q = Mant THEN [s |-> sgn, m |-> Mant \div 2, e |-> E + k + 1]
              ELSE [s |-> sgn, m |-> q, e |-> E + k]

FromInt(n) == Pack(Sgn(n), Abs(n), 0)

FNeg(a) == [a EXCEPT !.s = -a.s]

FAbs(a) == [a EXCEPT !.s = Abs(a.s)]

FMul(a, b) ==
    IF a.s = 0 \/ b.s = 0 THEN Zero
    ELSE LET ah == a.m \div Half
             al == a.m % Half
             bh == b.m \div Half
             bl == b.m % Half
             T == ah * bh
             U == ah * bl + al * bh
             V == al * bl
             M == T * 64 + (U \div 64) + (((U % 64) * Half + V) \div 2^18)
         IN Pack(a.s * b.s, M, a.e + b.e + 18)

\* One step of long division by b: seven more bits of the quotient.
DivStep(qr, b) == << qr[1] * 128 + ((qr[2] * 128) \div b), (qr[2] * 128) % b >>

\* a / b for b # 0 (the callers raise ZeroDivisionError before dividing by 0).
FDiv(a, b) ==
    IF a.s = 0 THEN Zero
    ELSE LET q0 == << a.m \div b.m, a.m % b.m >>
             q4 == DivStep(DivStep(DivStep(DivStep(q0, b.m), b.m), b.m), b.m)
         IN Pack(a.s * b.s, q4[1], a.e - b.e - 28)

FAdd(a, b) ==
    IF a.s = 0 THEN b
    ELSE IF b.s = 0 THEN a
    ELSE LET big == IF a.e >= b.e THEN a ELSE b
             sml == IF a.e >= b.e THEN b ELSE a
             diff == big.e - sml.e
             Mb == big.m * 32
             Ms == IF diff >= 30 THEN 0 ELSE (sml.m * 32) \div 2^diff
             S == big.s * Mb + sml.s * Ms
         IN Pack(Sgn(S), Abs(S), big.e - 5)

FSub(a, b) == FAdd(a, FNeg(b))

\* -1, 0 or 1 as a < b, a = b or a > b.
FCmp(a, b) == FSub(a, b).s

FLt(a, b) == FCmp(a, b) < 0

FLe(a, b) == FCmp(a, b) <= 0

\* The float nearest to the decimal literal p / q.
Dec(p, q) == FDiv(FromInt(p), FromInt(q))

\* int(a): a truncated toward zero.
Trunc(a) ==
    IF a.s = 0 THEN 0
    ELSE IF a.e >= 0 THEN a.s * a.m * 2^a.e
    ELSE IF a.e <= -24 THEN 0
    ELSE a.s * (a.m \div 2^(-a.e))

\* math.floor(a).
Floor(a) ==
    LET n == Trunc(a) IN
    IF a.s < 0 /\ FCmp(FromInt(n), a) # 0 THEN n - 1 ELSE n

One == FromInt(1)

Ln2 == Dec(6931472, 10000000)

\* 1 + r/i * (1 + r/(i+1) * (... (1 + r/9))): the series of exp(r) from term i.
RECURSIVE ExpSeries(_, _)
ExpSeries(r, i) ==
    IF i > 9 THEN One
    ELSE FAdd(One, FMul(FDiv(r, FromInt(i)), ExpSeries(r, i + 1)))

\* math.exp(y): y = j * ln 2 + r with |r| <= ln 2 / 2, exp(y) = 2^j * exp(r).
FExp(y) ==
    LET q == FDiv(y, Ln2)
        j == Floor(FAdd(q, Dec(1, 2)))
        r == FSub(y, FMul(FromInt(j), Ln2))
        p == ExpSeries(r, 1)
    IN [p EXCEPT !.e = p.e + j]

\* The integer square root of m2 * 4^12 by bit pairs, from pair k down to 0.
RECURSIVE SqrtPairs(_, _, _, _)
SqrtPairs(root, rem, k, m2) ==
    IF k < 0 THEN root
    ELSE LET c == IF k >= 12 THEN (m2 \div 4^(k - 12)) % 4 ELSE 0
             r4 == rem * 4 + c
             trial == root * 4 + 1
         IN IF r4 >= trial THEN SqrtPairs(root * 2 + 1, r4 - trial, k - 1, m2)
            ELSE SqrtPairs(root * 2, r4, k - 1, m2)

\* math.sqrt(a) for a >= 0 (the caller raises ValueError for a < 0).
FSqrt(a) ==
    IF a.s = 0 THEN Zero
    ELSE LET odd == a.e % 2 = 1
             m2 == IF odd THEN a.m * 2 ELSE a.m
             e2 == IF odd THEN a.e - 1 ELSE a.e
         IN Pack(1, SqrtPairs(0, 0, 24, m2), (e2 \div 2) - 12)

(***************************************************************************)
(* The notebook's formulas                                                 *)
(***************************************************************************)
C4_6 == Dec(46, 10)
C0_182258 == Dec(182258, 1000000)
C0_000104 == Dec(104, 1000000)
C0_8 == Dec(8, 10)
C0_1894393 == Dec(1894393, 10000000)
C0_012778 == Dec(12778, 1000000)
C0_2989558 == Dec(2989558, 10000000)
C0_1932605 == Dec(1932605, 10000000)
C0_033218 == Dec(33218, 1000000)
C0_000416 == Dec(416, 1000000)
C0_000208 == Dec(208, 1000000)
C1000 == FromInt(1000)
C60 == FromInt(60)

\* 0.8 + 0.1894393 * math.exp(-0.012778 * t) + 0.2989558 * math.exp(-0.1932605 * t)
FractionOfMax(t) ==
    FAdd(FAdd(C0_8, FMul(C0_1894393, FExp(FMul(FNeg(C0_012778), t)))),
         FMul(C0_2989558, FExp(FMul(FNeg(C0_1932605), t))))

\* Cell 1, from v = d / t on (t # 0): vo2 / pct.
IndexOf(d, t) ==
    LET v == FDiv(d, t)
        vo2 == FAdd(FAdd(FNeg(C4_6), FMul(C0_182258, v)),
                    FMul(C0_000104, FMul(v, v)))
        pct == FractionOfMax(t)
    IN FDiv(vo2, pct)

\* f with x ** (-1) written for x ** (-2).
f_InverseNotSquared(xx, vd, dd) ==
    LET x1 == FDiv(One, xx)
        num == FAdd(FAdd(FNeg(C4_6), FMul(FMul(C0_182258, dd), x1)),
                    FMul(FMul(C0_000104, FMul(dd, dd)), x1))
    IN FSub(FDiv(num, FractionOfMax(xx)), vd)

\* def f(x, vdot, d)
f(xx, vd, dd) ==
    LET x1 == FDiv(One, xx)
        x2 == FDiv(One, FMul(xx, xx))
        num == FAdd(FAdd(FNeg(C4_6), FMul(FMul(C0_182258, dd), x1)),
                    FMul(FMul(C0_000104, FMul(dd, dd)), x2))
    IN FSub(FDiv(num, FractionOfMax(xx)), vd)

\* The radicand with the sign of vdot * pct flipped.
Radicand_SignSlip(vd, pct) ==
    FSub(C0_033218, FMul(C0_000416, FAdd(FNeg(C4_6), FMul(vd, pct))))

\* The argument of math.sqrt in g.
Radicand(vd, pct) ==
    FSub(C0_033218, FMul(C0_000416, FSub(FNeg(C4_6), FMul(vd, pct))))

\* def g(vdot, pct), where math.sqrt does not raise.
g(vd, pct) == FDiv(FAdd(FNeg(C0_182258), FSqrt(Radicand(vd, pct))), C0_000208)

\* timedelta(minutes=p): whole seconds and microseconds (0 <= us < 10^6).
timedelta(p) ==
    LET y == FMul(p, C60)
        whole == Floor(y)
        frac == FSub(y, FromInt(whole))
        us == Floor(FAdd(FMul(frac, FromInt(1000000)), Dec(1, 2)))
    IN IF us >= 1000000 THEN [sec |-> whole + 1, us |-> 0]
       ELSE [sec |-> whole, us |-> us]

\* def format_duration(td): the fields of the string, hh shown when hh > 0.
format_duration(td) ==
    LET s == IF td.sec < 0 /\ td.us > 0 THEN td.sec + 1 ELSE td.sec
    IN [hh |-> s \div 3600, mm |-> (s \div 60) % 60, ss |-> s % 60]

\* distances = {...}: name -> meters, in insertion order.
DistancesDict ==
    << [name |-> "5K", d |-> FromInt(5000)],
       [name |-> "10K", d |-> FromInt(10000)],
       [name |-> "Half marathon", d |-> Dec(210975, 10)],
       [name |-> "Marathon", d |-> FromInt(42195)] >>

\* The table with Interval's low bound mistyped as 0.85.
PacesDict_IntervalTypo ==
    << [name |-> "Easy", pcts |-> << Dec(59, 100), Dec(74, 100) >>],
       [name |-> "Marathon", pcts |-> << Dec(75, 100), Dec(84, 100) >>],
       [name |-> "Threshold", pcts |-> << Dec(83, 100), Dec(88, 100) >>],
       [name |-> "Interval", pcts |-> << Dec(85, 100), One >>],
       [name |-> "Repetition", pcts |-> << Dec(105, 100), Dec(12, 10) >>] >>

\* paces = {...}: name -> (low, high), in insertion order.
PacesDict ==
    << [name |-> "Easy", pcts |-> << Dec(59, 100), Dec(74, 100) >>],
       [name |-> "Marathon", pcts |-> << Dec(75, 100), Dec(84, 100) >>],
       [name |-> "Threshold", pcts |-> << Dec(83, 100), Dec(88, 100) >>],
       [name |-> "Interval", pcts |-> << Dec(95, 100), One >>],
       [name |-> "Repetition", pcts |-> << Dec(105, 100), Dec(12, 10) >>] >>

\* optimize.bisect(f, 1, 600, ...): the bracket and the library's defaults.
BracketLo == 1
BracketHi == 600
MaxIter == 100
\* An absolute tolerance of 2e-21 in place of 2e-12.
XTol_TooSmall ==
    FDiv(FromInt(2), FMul(FMul(FromInt(1000000), FromInt(1000000)),
                          FromInt(1000000000)))

XTol == FDiv(FromInt(2), FMul(FromInt(1000000), FromInt(1000000)))
RTol == [s |-> 1, m |-> Mant \div 2, e |-> -73]

(***************************************************************************)
(* The kernel: the notebook's cells run on one namespace                   *)
(***************************************************************************)
\* How many cell executions a behaviour holds.
MaxRuns == 3

\* The literals of cell 1 (d in meters as num / den, the timedelta in whole
\* seconds): the notebook's own 5000 m in 24:34, and other values of them.
Observations ==
    { [num |-> 5000, den |-> 1, sec |-> 1474],
      [num |-> 10000, den |-> 1, sec |-> 3058],
      [num |-> 210975, den |-> 10, sec |-> 6782],
      [num |-> 42195, den |-> 1, sec |-> 14034],
      [num |-> 5000, den |-> 1, sec |-> 900],
      [num |-> 210975, den |-> 10, sec |-> 3600],
      [num |-> 42195, den |-> 1, sec |-> 7300],
      [num |-> 5000, den |-> 1, sec |-> 60],
      [num |-> 10000, den |-> 1, sec |-> 2400],
      [num |-> 5000, den |-> 1, sec |-> 12000],
      [num |-> 5000, den |-> 1, sec |-> 30],
      [num |-> 42195, den |-> 1, sec |-> 37000],
      [num |-> 5000, den |-> 1, sec |-> 30000],
      [num |-> 5000, den |-> 1, sec |-> 0],
      [num |-> 0, den |-> 1, sec |-> 1474],
      [num |-> -5000, den |-> 1, sec |-> 1474],
      [num |-> 5000, den |-> 1, sec |-> -600],
      [num |-> -17520, den |-> 1, sec |-> 1200],
      [num |-> -8760, den |-> 1, sec |-> 600] }

VARIABLES
    obs,        \* the literals cell 1 is written with
    pc,         \* "idle", or the loop a running cell is in
    runs,       \* cells executed so far
    cell,       \* the cell run last (0: none yet)
    err,        \* the exception that ended the last cell run, or "none"
    d,          \* the name d: << >> while undefined, else << value >>
    t,          \* the name t
    vdot,       \* the name vdot
    distances,  \* the name distances: << >> while undefined, else the dict
    paces,      \* the name paces: undefined, the dict, or a list of floats
    velocities, \* the name velocities
    it2,        \* the items distances.items() has still to yield
    bs,         \* the locals of the running optimize.bisect call
    calls,      \* the optimize.bisect calls of the last run of cell 2
    it3,        \* the items paces.items() has still to yield
    out3        \* the lines the last run of cell 3 printed

vars == << obs, pc, runs, cell, err, d, t, vdot, distances, paces, velocities,
           it2, bs, calls, it3, out3 >>

NoBisect == [name |-> "", d |-> Zero, xa |-> Zero, fa |-> Zero, fb |-> Zero,
             dm |-> Zero, i |-> 0]

UndefinedPaces == [kind |-> "undefined", dict |-> << >>, list |-> << >>]

NoString == [hh |-> 0, mm |-> 0, ss |-> 0]

Init ==
    /\ obs \in Observations
    /\ pc = "idle"
    /\ runs = 0
    /\ cell = 0
    /\ err = "none"
    /\ d = << >>
    /\ t = << >>
    /\ vdot = << >>
    /\ distances = << >>
    /\ paces = UndefinedPaces
    /\ velocities = << >>
    /\ it2 = << >>
    /\ bs = NoBisect
    /\ calls = << >>
    /\ it3 = << >>
    /\ out3 = << >>

\* Cell 1: d = ...; t = ... / 60; v = d / t; vo2 = ...; pct = ...; vdot = vo2 / pct
RunCell1 ==
    /\ pc = "idle"
    /\ runs < MaxRuns
    /\ runs' = runs + 1
    /\ cell' = 1
    /\ LET dl == Dec(obs.num, obs.den)
           tl == FDiv(FromInt(obs.sec), C60)
       IN /\ d' = << dl >>
          /\ t' = << tl >>
          /\ IF tl.s = 0
             THEN /\ err' = "ZeroDivisionError"
                  /\ vdot' = vdot
             ELSE /\ err' = "none"
                  /\ vdot' = << IndexOf(dl, tl) >>
    /\ UNCHANGED << obs, pc, distances, paces, velocities, it2, bs, calls,
                    it3, out3 >>

\* Cell 2 up to the for statement: format_duration, f and distances are bound.
RunCell2 ==
    /\ pc = "idle"
    /\ runs < MaxRuns
    /\ runs' = runs + 1
    /\ cell' = 2
    /\ distances' = DistancesDict
    /\ it2' = DistancesDict
    /\ calls' = << >>
    /\ bs' = NoBisect
    /\ err' = "none"
    /\ pc' = "eqloop"
    /\ UNCHANGED << obs, d, t, vdot, paces, velocities, it3, out3 >>

\* No sign check at all.
SignError_Never(fa, fb) == FALSE

\* The library's sign check, made once neither endpoint residual is zero:
\* "f(a) and f(b) must have different signs".
SignError(fa, fb) == fa.s = fb.s

\* The library's return test in the loop.
Converged(fm, dm, xm) ==
    fm.s = 0 \/ FLt(FAbs(dm), FAdd(XTol, FMul(RTol, FAbs(xm))))

\* A square root that never raises.
MathDomainError_Never(r) == FALSE

\* math.sqrt(r) raises ValueError("math domain error").
MathDomainError(r) == r.s < 0

\* What one optimize.bisect call left: its endpoint residuals, its outcome
\* ("root", or the exception raised), and for a root the line printed.
Call(b, status, iters, root) ==
    [name |-> b.name, d |-> b.d, fa |-> b.fa, fb |-> b.fb, iters |-> iters,
     status |-> status, root |-> root,
     td_s |-> IF status = "root" THEN format_duration(timedelta(root))
              ELSE NoString]

\* for name, d in distances.items(): root = optimize.bisect(f, 1, 600, ...)
\* up to the first halving, or to the return for an endpoint that is a root.
EqLoopNext ==
    /\ pc = "eqloop"
    /\ IF it2 = << >>
       THEN /\ pc' = "idle"
            /\ UNCHANGED << d, it2, bs, calls, err >>
       ELSE LET item == Head(it2) IN
            /\ d' = << item.d >>
            /\ IF vdot = << >>
               THEN /\ err' = "NameError"
                    /\ pc' = "idle"
                    /\ it2' = << >>
                    /\ UNCHANGED << bs, calls >>
               ELSE LET xa == FromInt(BracketLo)
                        xb == FromInt(BracketHi)
                        fa == f(xa, vdot[1], item.d)
                        fb == f(xb, vdot[1], item.d)
                        b == [name |-> item.name, d |-> item.d, xa |-> xa,
                              fa |-> fa, fb |-> fb, dm |-> FSub(xb, xa),
                              i |-> 0]
                    IN IF fa.s = 0 \/ fb.s = 0
                       THEN /\ calls' = Append(calls, Call(b, "root", 0,
                                            IF fa.s = 0 THEN xa ELSE xb))
                            /\ it2' = Tail(it2)
                            /\ bs' = NoBisect
                            /\ UNCHANGED << pc, err >>
                       ELSE IF SignError(fa, fb)
                       THEN /\ calls' = Append(calls,
                                               Call(b, "ValueError", 0, Zero))
                            /\ err' = "ValueError"
                            /\ pc' = "idle"
                            /\ it2' = << >>
                            /\ bs' = NoBisect
                       ELSE /\ bs' = b
                            /\ pc' = "bisect"
                            /\ it2' = Tail(it2)
                            /\ UNCHANGED << calls, err >>
    /\ UNCHANGED << obs, runs, cell, t, vdot, distances, paces, velocities, it3,
                    out3 >>

\* One iteration of the library's loop: dm *= .5; xm = xa + dm; fm = f(xm);
\* if fm * fa >= 0: xa = xm; return xm when fm == 0 or
\* fabs(dm) < xtol + rtol * fabs(xm); a convergence error after MaxIter.
BisectStep ==
    /\ pc = "bisect"
    /\ IF bs.i >= MaxIter
       THEN /\ calls' = Append(calls, Call(bs, "RuntimeError", bs.i, Zero))
            /\ err' = "RuntimeError"
            /\ pc' = "idle"
            /\ it2' = << >>
            /\ bs' = NoBisect
       ELSE LET dm == FMul(bs.dm, Dec(1, 2))
                xm == FAdd(bs.xa, dm)
                fm == f(xm, vdot[1], bs.d)
            IN IF Converged(fm, dm, xm)
               THEN /\ calls' = Append(calls, Call(bs, "root", bs.i + 1, xm))
                    /\ pc' = "eqloop"
                    /\ bs' = NoBisect
                    /\ UNCHANGED << err, it2 >>
               ELSE /\ bs' = [bs EXCEPT
                                !.xa = IF fm.s * bs.fa.s >= 0 THEN xm ELSE @,
                                !.dm = dm,
                                !.i = @ + 1]
                    /\ UNCHANGED << calls, err, pc, it2 >>
    /\ UNCHANGED << obs, runs, cell, d, t, vdot, distances, paces, velocities,
                    it3,
                    out3 >>

\* Cell 3 up to the for statement: g and paces are bound.
RunCell3 ==
    /\ pc = "idle"
    /\ runs < MaxRuns
    /\ runs' = runs + 1
    /\ cell' = 3
    /\ paces' = [kind |-> "dict", dict |-> PacesDict, list |-> << >>]
    /\ it3' = PacesDict
    /\ out3' = << >>
    /\ err' = "none"
    /\ pc' = "paceloop"
    /\ UNCHANGED << obs, d, t, vdot, distances, velocities, it2, bs, calls >>

\* faster, slower = paces_s
PaceLine_Swapped(name, paces_s) ==
    [name |-> name, faster |-> paces_s[1], slower |-> paces_s[2]]

\* slower, faster = paces_s; print(f"{name:11}: {faster} ~ {slower}")
PaceLine(name, paces_s) ==
    [name |-> name, faster |-> paces_s[2], slower |-> paces_s[1]]

\* for name, pcts in paces.items(): one iteration of the body.
PaceLoopNext ==
    /\ pc = "paceloop"
    /\ IF it3 = << >>
       THEN /\ pc' = "idle"
            /\ UNCHANGED << err, paces, velocities, it3, out3 >>
       ELSE LET item == Head(it3) IN
            IF vdot = << >>
            THEN /\ err' = "NameError"
                 /\ pc' = "idle"
                 /\ it3' = << >>
                 /\ UNCHANGED << paces, velocities, out3 >>
            ELSE IF \E k \in 1..2 :
                       MathDomainError(Radicand(vdot[1], item.pcts[k]))
            THEN /\ err' = "ValueError"
                 /\ pc' = "idle"
                 /\ it3' = << >>
                 /\ UNCHANGED << paces, velocities, out3 >>
            ELSE LET vs == [k \in 1..2 |-> g(vdot[1], item.pcts[k])] IN
                 /\ velocities' = vs
                 /\ IF \E k \in 1..2 : vs[k].s = 0
                    THEN /\ err' = "ZeroDivisionError"
                         /\ pc' = "idle"
                         /\ it3' = << >>
                         /\ UNCHANGED << paces, out3 >>
                    ELSE LET ps == [k \in 1..2 |-> FDiv(C1000, vs[k])] IN
                         /\ paces' = [kind |-> "list", dict |-> << >>,
                                      list |-> ps]
                         /\ IF distances = << >>
                            THEN /\ err' = "NameError"
                                 /\ pc' = "idle"
                                 /\ it3' = << >>
                                 /\ UNCHANGED out3
                            ELSE /\ out3' = Append(out3, PaceLine(item.name,
                                   [k \in 1..2 |->
                                      format_duration(timedelta(ps[k]))]))
                                 /\ it3' = Tail(it3)
                                 /\ UNCHANGED << err, pc >>
    /\ UNCHANGED << obs, runs, cell, d, t, vdot, distances, it2, bs, calls >>

Next ==
    \/ RunCell1
    \/ RunCell2
    \/ EqLoopNext
    \/ BisectStep
    \/ RunCell3
    \/ PaceLoopNext

Spec == Init /\ [][Next]_vars

(***************************************************************************)
(* The claims                                                              *)
(***************************************************************************)
\* The observation cell 1 is written with, as the floats it binds.
ObsD == Dec(obs.num, obs.den)

ObsT == FDiv(FromInt(obs.sec), C60)

ValidObs == obs.num > 0 /\ obs.sec > 0

\* The optimize.bisect calls made for the observed distance itself.
OwnCalls == { k \in 1..Len(calls) : calls[k].d = ObsD }

\* |a - b| is at most n units in the last place of b.
WithinUlps(a, b, n) == FLe(FAbs(FSub(a, b)), Pack(1, n, b.e))

\* The whole seconds a printed duration stands for.
Seconds(str) == str.hh * 3600 + str.mm * 60 + str.ss

Last(seq) == seq[Len(seq)]

\* C1 (as claimed): whenever the distance or the duration of the observation
\* is zero or negative, the index computation ends in an error and binds no
\* index.
C1_InvalidObservationGivesNoIndex ==
    (obs.num <= 0 \/ obs.sec <= 0) => vdot = << >>

\* C2 (as claimed): for every valid observation (d > 0, t > 0), the bisection
\* for the observed distance returns a root, and the root is the observed
\* duration up to the solver's resolution.
C2_RoundTripForEveryValidObservation ==
    ValidObs =>
        \A k \in OwnCalls :
            calls[k].status = "root" /\ WithinUlps(calls[k].root, ObsT, 4)

\* C2 (amended): for a valid observation whose duration lies in the bracket,
\* 1 <= t < 600 minutes, the bisection for the observed distance returns a
\* root within the solver's resolution of t; for a valid observation with
\* t < 1 or t > 600 minutes it raises the sign error and returns nothing.
C2_RoundTripInsideBracket ==
    ValidObs =>
        \A k \in OwnCalls :
            /\ (60 * BracketLo <= obs.sec /\ obs.sec < 60 * BracketHi)
                  => /\ calls[k].status = "root"
                     /\ WithinUlps(calls[k].root, ObsT, 4)
            /\ (obs.sec < 60 * BracketLo \/ obs.sec > 60 * BracketHi)
                  => calls[k].status = "ValueError"

\* C2 witness: the notebook's own observation, 5000 m in 24:34, came back
\* from the halving loop as the line "5K: 24:34".
C2_Witness ==
    /\ obs.num = 5000 /\ obs.sec = 1474
    /\ \E k \in OwnCalls :
          /\ calls[k].status = "root" /\ calls[k].iters > 20
          /\ calls[k].td_s = [hh |-> 0, mm |-> 24, ss |-> 34]

\* C3 (as claimed): a call whose endpoint residuals do not have opposite signs
\* fails with the sign error, and only opposite signs start the halving.
C3_NoOppositeSignsFails ==
    \A k \in 1..Len(calls) :
        ~(calls[k].fa.s * calls[k].fb.s < 0) => calls[k].status = "ValueError"

\* C3 (amended): a call whose endpoint residuals are both nonzero and of the
\* same sign fails with the sign error without halving; a call whose residual
\* at 1 (else at 600) is exactly zero returns that endpoint without halving;
\* the halving runs only for residuals of opposite signs.
C3_SameSignFailsZeroEndpointReturns ==
    /\ \A k \in 1..Len(calls) :
          LET c == calls[k] IN
          /\ c.fa.s * c.fb.s > 0 => c.status = "ValueError" /\ c.iters = 0
          /\ c.fa.s = 0
                => c.status = "root" /\ c.iters = 0
                   /\ c.root = FromInt(BracketLo)
          /\ (c.fa.s # 0 /\ c.fb.s = 0)
                => c.status = "root" /\ c.iters = 0
                   /\ c.root = FromInt(BracketHi)
          /\ c.iters > 0 => c.fa.s * c.fb.s < 0
          /\ c.fa = f(FromInt(BracketLo), vdot[1], c.d)
          /\ c.fb = f(FromInt(BracketHi), vdot[1], c.d)
    /\ pc = "bisect" => bs.fa.s * bs.fb.s < 0

\* C3 witness: one run of the loop that returned the endpoint 1 for a zero
\* residual there (a 5000 m observation of one minute), and then halved for
\* the next distance.
C3_Witness ==
    /\ \E k \in 1..Len(calls) : calls[k].fa.s = 0 /\ calls[k].status = "root"
    /\ \E k \in 1..Len(calls) : calls[k].iters > 0
    /\ obs.sec = 60

\* C4 (as claimed): with an index that is zero or negative, no equivalent time
\* is returned for any positive distance.
C4_NonPositiveIndexGivesNoTime ==
    (vdot # << >> /\ vdot[1].s <= 0) =>
        \A k \in 1..Len(calls) :
            calls[k].d.s > 0 => calls[k].status # "root"

\* C5: for a positive index, every line the pace loop prints has
\* faster <= slower, and the line's two paces are the smaller and the larger
\* of the two computed pace values.
C5_FasterNotSlowerThanSlower ==
    (vdot # << >> /\ vdot[1].s > 0) =>
        /\ \A k \in 1..Len(out3) :
              Seconds(out3[k].faster) <= Seconds(out3[k].slower)
        /\ (out3 # << >> /\ paces.kind = "list") =>
              LET p1 == paces.list[1]
                  p2 == paces.list[2]
                  lo == IF FLe(p1, p2) THEN p1 ELSE p2
                  hi == IF FLe(p1, p2) THEN p2 ELSE p1
              IN /\ Last(out3).faster = format_duration(timedelta(lo))
                 /\ Last(out3).slower = format_duration(timedelta(hi))

\* C5 witness: all five lines printed for a positive index, the last with two
\* different paces.
C5_Witness ==
    /\ vdot # << >> /\ vdot[1].s > 0
    /\ Len(out3) = 5
    /\ Seconds(out3[5].faster) < Seconds(out3[5].slower)

\* The radicand of zone k's low (j = 1) or high (j = 2) bound is negative.
NegativeRadicand(k) ==
    \E j \in 1..2 : Radicand(vdot[1], PacesDict[k].pcts[j]).s < 0

\* C6: no line is printed for a zone one of whose bounds has a negative
\* radicand; the loop ends there with the square root's error, and the names
\* velocities and paces keep what the zone before gave (no substitute value).
C6_NegativeRadicandRaises ==
    vdot # << >> =>
        /\ \A k \in 1..5 : NegativeRadicand(k) => Len(out3) < k
        /\ (cell = 3 /\ pc = "idle" /\ Len(out3) < 5
            /\ NegativeRadicand(Len(out3) + 1))
              => /\ err = "ValueError"
                 /\ Len(out3) > 0 =>
                       /\ paces.kind = "list"
                       /\ Last(out3).slower
                            = format_duration(timedelta(paces.list[1]))
                       /\ velocities[2]
                            = g(vdot[1], PacesDict[Len(out3)].pcts[2])

\* C6 witness: the loop printed three zones and ended on the fourth with the
\* error.
C6_Witness ==
    /\ cell = 3 /\ pc = "idle" /\ err = "ValueError"
    /\ vdot # << >> /\ Len(out3) = 3 /\ NegativeRadicand(4)

\* low < high in every zone.
ZonesWellFormed(dict) ==
    \A k \in 1..Len(dict) : FLt(dict[k].pcts[1], dict[k].pcts[2])

\* C7 (as claimed): in table order every zone has low < high and a low bound
\* strictly above the previous zone's high bound.
C7_ZonesDoNotOverlap ==
    paces.kind = "dict" =>
        /\ ZonesWellFormed(paces.dict)
        /\ \A k \in 2..Len(paces.dict) :
              FLt(paces.dict[k - 1].pcts[2], paces.dict[k].pcts[1])

\* C7 (amended): in table order every zone has low < high, its low and its
\* high bound are strictly above the previous zone's low and high bound, and
\* its low bound is strictly above the previous zone's high bound except for
\* Threshold, whose low bound (0.83) is below Marathon's high bound (0.84).
C7_ZonesAscendWithOneOverlap ==
    paces.kind = "dict" =>
        /\ Len(paces.dict) = 5
        /\ ZonesWellFormed(paces.dict)
        /\ \A k \in 2..5 :
              /\ FLt(paces.dict[k - 1].pcts[1], paces.dict[k].pcts[1])
              /\ FLt(paces.dict[k - 1].pcts[2], paces.dict[k].pcts[2])
              /\ k # 3 => FLt(paces.dict[k - 1].pcts[2], paces.dict[k].pcts[1])
        /\ paces.dict[3].name = "Threshold"
        /\ FLt(paces.dict[3].pcts[1], paces.dict[2].pcts[2])

\* C7 witness: the table is bound and the loop is about to read it.
C7_Witness ==
    paces.kind = "dict" /\ pc = "paceloop" /\ it3 = paces.dict

\* C8 (as claimed): once bound, the names distances and paces denote the
\* original tables, whatever cells have run.
C8_TablesNeverRebound ==
    /\ distances # << >> => distances = DistancesDict
    /\ paces.kind # "undefined" =>
          paces.kind = "dict" /\ paces.dict = PacesDict

\* C9 (as claimed): a bisection that went through the halving loop ends after
\* fewer than 30 iterations.
C9_FewerThanThirtyIterations ==
    \A k \in 1..Len(calls) : calls[k].iters < 30

\* C9 (amended): a bisection on [1, 600] with the library's default tolerance
\* (2e-12 + 8.9e-16 * |x| minutes; the code passes no 1e-6) ends after at
\* most 49 iterations, and never with the convergence error of the 100th.
C9_AtMostFortyNineIterations ==
    /\ \A k \in 1..Len(calls) :
          calls[k].iters <= 49 /\ calls[k].status # "RuntimeError"
    /\ pc = "bisect" => bs.i < 49
    /\ err # "RuntimeError"

\* C9 witness: a call that ended on the tolerance, in its 49th iteration.
C9_Witness ==
    \E k \in 1..Len(calls) : calls[k].iters = 49 /\ calls[k].status = "root"

\* C10: for a positive index the radicand and the velocity are strictly
\* positive for both bounds of every zone of the table, so the pace loop ends
\* with neither the square root's nor a division error, and every velocity and
\* pace it binds is positive.
C10_PositiveIndexPositivePaces ==
    (vdot # << >> /\ vdot[1].s > 0) =>
        /\ \A k \in 1..Len(PacesDict) : \A j \in 1..2 :
              /\ Radicand(vdot[1], PacesDict[k].pcts[j]).s > 0
              /\ g(vdot[1], PacesDict[k].pcts[j]).s > 0
        /\ \A j \in 1..Len(velocities) : velocities[j].s > 0
        /\ paces.kind = "list" => \A j \in 1..2 : paces.list[j].s > 0
        /\ (cell = 3 /\ pc = "idle")
              => err \notin {"ValueError", "ZeroDivisionError"}
        /\ (cell = 3 /\ pc = "idle" /\ distances # << >>) => Len(out3) = 5

\* C10 witness: the pace loop ran through for a positive index below 1.
C10_Witness ==
    /\ vdot # << >> /\ vdot[1].s > 0 /\ FLt(vdot[1], One)
    /\ cell = 3 /\ pc = "idle" /\ Len(out3) = 5
====
